---- MODULE Spec2Model ----
(***************************************************************************)
(* Colour engine of spectrum-explorer (src/src/utils/colorConversions.ts). *)
(*                                                                         *)
(* Numbers.  The source computes in IEEE-754 doubles.  Here a double is    *)
(* the exact rational it approximates, kept as numerator and denominator   *)
(* (HSV, CMYK, YUV), so Math.round(n/d) is floor(n/d + 1/2).  The LAB      *)
(* converters use Math.pow; they are computed in binary fixed point with   *)
(* 24 fractional bits (ONE = 2^24), roots taken by bisection.  The inputs  *)
(* drawn by the specifications below are pixels on which these agree with  *)
(* the doubles of the source in every rounded result.                      *)
(***************************************************************************)
EXTENDS Integers, Sequences, FiniteSets, TLC

VARIABLES
    input,        \* converter trial: the RGB triple handed to rgbTo*
    conv,         \* converter trial: "none" or the model whose pair was applied
    fwd,          \* converter trial: rgbTo*(input)
    back,         \* converter trial: *ToRgb(fwd)
    heap,         \* typed arrays: buffer id -> sequence of bytes
    imageData,    \* the caller's ImageData [data |-> buffer id, width, height]
    selectedModel,\* the ColorModel passed to transformImageData
    adjustments,  \* the adjustments argument (Undefined when absent)
    result,       \* the ImageData returned by transformImageData, or NoResult
    pc,           \* "idle" before the call, "done" after it returned
    tag,          \* formatter trial: the model tag handed to getColorInModel
    text,         \* formatter trial: the string getColorInModel returned
    page,         \* Index: its state [selectedModel, showOriginal, adjustments]
    panel,        \* ColorAdjustmentPanel: its adjustments state
    rendered,     \* the Index state of the last commit: the props its closures hold
    ui,           \* React's position: [phase, resetDue]
    workspace,    \* ImageWorkspace: [workspaceImage, complete, canvas]
    gallery,      \* ImageGallery, one image: [complete, canvas]
    drawn,        \* the run of drawImageOnCanvas the last step made, or NoValue
    lastEvent,    \* the last user event: "SelectModel", "Reset" or "other"
    probe         \* pixel probe: [canvas, selectedModel, colorInfo, query]

vars ==
    <<input, conv, fwd, back, heap, imageData, selectedModel, adjustments, result, pc,
      tag, text, page, panel, rendered, ui, workspace, gallery, drawn, lastEvent, probe>>

convVars == <<input, conv, fwd, back>>
callVars == <<heap, imageData, selectedModel, adjustments, result, pc>>
formatVars == <<tag, text>>
uiVars == <<page, panel, rendered, ui, workspace, gallery, drawn, lastEvent>>

----------------------------------------------------------------------------
(* Arithmetic of the source *)

ByteMax == 255

Max2(a, b) == IF a >= b THEN a ELSE b
Min2(a, b) == IF a <= b THEN a ELSE b
Max3First(a, b, c) == a
Max3(a, b, c) == Max2(a, Max2(b, c))
Min3(a, b, c) == Min2(a, Min2(b, c))
Abs(a) == IF a < 0 THEN -a ELSE a

\* Math.max(lo, Math.min(hi, x))
NoClamp(lo, hi, x) == x
Clamp(lo, hi, x) == Max2(lo, Min2(hi, x))

\* Math.round(n/d) for d > 0: the nearest integer, halves towards +infinity
RoundTrunc(n, d) == n \div d
Round(n, d) == (2 * n + d) \div (2 * d)

\* The JavaScript remainder a % m (m > 0): it takes the sign of a
JsRem(a, m) == IF a >= 0 THEN a % m ELSE -((-a) % m)

----------------------------------------------------------------------------
(* RGB <-> HSV *)

\* h before scaling is hnum/delta; the three branches pick the sector
HueNoWrap(h) == h
HueWrap(h) == IF h < 0 THEN h + 360 ELSE h

rgbToHsv(rgb) ==
    LET max == Max3(rgb.r, rgb.g, rgb.b)
        min == Min3(rgb.r, rgb.g, rgb.b)
        delta == max - min
        hnum == IF delta = 0 THEN 0
                ELSE IF max = rgb.r THEN JsRem(rgb.g - rgb.b, 6 * delta)
                ELSE IF max = rgb.g THEN (rgb.b - rgb.r) + 2 * delta
                ELSE (rgb.r - rgb.g) + 4 * delta
        h == IF delta = 0 THEN 0 ELSE Round(hnum * 60, delta)
    IN  [h |-> HueWrap(h),
         s |-> IF max = 0 THEN 0 ELSE Round(delta * 100, max),
         v |-> Round(max * 100, ByteMax)]

\* c, x, m and the channels are kept in units of 1/600000 (= 1/(100*100*60))
hsvToRgb(hsv) ==
    LET c == hsv.v * hsv.s * 60
        x == hsv.v * hsv.s * (60 - Abs(JsRem(hsv.h, 120) - 60))
        m == (hsv.v * 100 - hsv.v * hsv.s) * 60
        rgb1 == IF hsv.h < 60 THEN <<c, x, 0>>
                ELSE IF hsv.h < 120 THEN <<x, c, 0>>
                ELSE IF hsv.h < 180 THEN <<0, c, x>>
                ELSE IF hsv.h < 240 THEN <<0, x, c>>
                ELSE IF hsv.h < 300 THEN <<x, 0, c>>
                ELSE <<c, 0, x>>
    IN  [r |-> Round((rgb1[1] + m) * ByteMax, 600000),
         g |-> Round((rgb1[2] + m) * ByteMax, 600000),
         b |-> Round((rgb1[3] + m) * ByteMax, 600000)]

----------------------------------------------------------------------------
(* RGB <-> CMYK *)

\* k = 1 - max/255; k === 1 exactly when max = 0; (1 - ch - k)/(1 - k) = (max - ch)/max
InkBlackIsFull(max, ch) == IF max = 0 THEN 100 ELSE Round((max - ch) * 100, max)
Ink(max, ch) == IF max = 0 THEN 0 ELSE Round((max - ch) * 100, max)

rgbToCmyk(rgb) ==
    LET max == Max3(rgb.r, rgb.g, rgb.b)
    IN  [c |-> Ink(max, rgb.r),
         m |-> Ink(max, rgb.g),
         y |-> Ink(max, rgb.b),
         k |-> Round((ByteMax - max) * 100, ByteMax)]

cmykToRgbNoKey(cmyk) ==
    [r |-> Round(ByteMax * (100 - cmyk.c), 100),
     g |-> Round(ByteMax * (100 - cmyk.m), 100),
     b |-> Round(ByteMax * (100 - cmyk.y), 100)]

cmykToRgb(cmyk) ==
    [r |-> Round(ByteMax * (100 - cmyk.c) * (100 - cmyk.k), 10000),
     g |-> Round(ByteMax * (100 - cmyk.m) * (100 - cmyk.k), 10000),
     b |-> Round(ByteMax * (100 - cmyk.y) * (100 - cmyk.k), 10000)]

----------------------------------------------------------------------------
(* RGB <-> YUV *)

\* y, u, v times 255 in units of 1/100000; (u + 0.5) * 255 = u*255 + 127.5
rgbToYuvNoOffset(rgb) ==
    [y |-> Round(29900 * rgb.r + 58700 * rgb.g + 11400 * rgb.b, 100000),
     u |-> Round(-14713 * rgb.r - 28886 * rgb.g + 43600 * rgb.b, 100000),
     v |-> Round(61500 * rgb.r - 51499 * rgb.g - 10001 * rgb.b, 100000)]
rgbToYuv(rgb) ==
    LET y == 29900 * rgb.r + 58700 * rgb.g + 11400 * rgb.b
        u == -14713 * rgb.r - 28886 * rgb.g + 43600 * rgb.b
        v == 61500 * rgb.r - 51499 * rgb.g - 10001 * rgb.b
    IN  [y |-> Round(y, 100000),
         u |-> Round(u + 12750000, 100000),
         v |-> Round(v + 12750000, 100000)]

\* u = yuv.u/255 - 0.5 = (2*yuv.u - 255)/510; channels times 255 in units of 1/2000
yuvToRgb(yuv) ==
    LET y == 2000 * yuv.y
        u == 2 * yuv.u - ByteMax
        v == 2 * yuv.v - ByteMax
    IN  [r |-> Clamp(0, ByteMax, Round(y + 1403 * v, 2000)),
         g |-> Clamp(0, ByteMax, Round(y - 344 * u - 714 * v, 2000)),
         b |-> Clamp(0, ByteMax, Round(y + 1770 * u, 2000))]

----------------------------------------------------------------------------
(* Fixed point for the LAB converters: a real t is the integer floor(t * ONE). *)
(* The arithmetic is written as functions: like the calls of the source, an    *)
(* application evaluates its arguments before the body.                        *)

LIMB == 64 * 64
ONE == LIMB * LIMB

\* n/d as fixed point, exactly floor(n * ONE / d)
ToFixed[n \in Int, d \in Int] ==
    ((n * LIMB) \div d) * LIMB + (((n * LIMB) % d) * LIMB) \div d

\* a * (b/c) for a fixed-point a and a decimal constant b/c: exactly floor(a*b/c)
MulDivLimbs[t1 \in Int, a0 \in Int, b \in Int, c \in Int] ==
    (t1 \div c) * LIMB + ((t1 % c) * LIMB + a0 * b) \div c
MulDiv[a \in Int, b \in Int, c \in Int] == MulDivLimbs[(a \div LIMB) * b, a % LIMB, b, c]

\* the product of two fixed-point numbers, truncated towards zero
FMulLimbs[a1 \in Int, a0 \in Int, b1 \in Int, b0 \in Int] ==
    a1 * b1 + (a1 * b0 + a0 * b1 + (a0 * b0) \div LIMB) \div LIMB
FMulNat[a \in Int, b \in Int] == FMulLimbs[a \div LIMB, a % LIMB, b \div LIMB, b % LIMB]

FMul[a \in Int, b \in Int] ==
    IF (a < 0) = (b < 0) THEN FMulNat[Abs(a), Abs(b)] ELSE -FMulNat[Abs(a), Abs(b)]

\* Math.round(k * t) for an integer k and a fixed-point t
RoundScaled[k \in Int, t \in Int] ==
    (k * (t \div LIMB) + (k * (t % LIMB) + ONE \div 2) \div LIMB) \div LIMB

\* y^n for n in {2, 3, 5}
FPow[y \in Int, n \in Int] ==
    IF n = 2 THEN FMul[y, y]
    ELSE IF n = 3 THEN FMul[FMul[y, y], y]
    ELSE FMul[FMul[FMul[y, y], FMul[y, y]], y]

\* the n-th root of x >= 0 is the largest y with y^n <= x.  Narrow finds the
\* binary digits of y below the width w down to the width stop: lo is y's
\* digits from w upwards, and lo <= y < lo + w
Narrow[n \in Int, x \in Int, lo \in Int, w \in Int, stop \in Int] ==
    IF w <= stop THEN lo
    ELSE IF FPow[lo + w \div 2, n] <= x THEN Narrow[n, x, lo + w \div 2, w \div 2, stop]
    ELSE Narrow[n, x, lo, w \div 2, stop]

\* y < 2: twenty-five binary digits, found five at a time
Root[n \in Int, x \in Int] ==
    Narrow[n, x,
           Narrow[n, x,
                  Narrow[n, x,
                         Narrow[n, x,
                                Narrow[n, x, 0, 2 * ONE, 256 * LIMB],
                                256 * LIMB, 8 * LIMB],
                         8 * LIMB, 1024],
                  1024, 32],
           32, 1]

\* Math.pow(x, 2.4) = x^2 * (x^(1/5))^2 for 0 <= x <= 1
Pow24[x \in Int] == FMul[FMul[x, x], FPow[Root[5, x], 2]]

\* Math.pow(x, 1/2.4) = (x^(1/12))^5 for x >= 0
PowInv24[x \in Int] == FPow[Root[2, Root[2, Root[3, x]]], 5]

----------------------------------------------------------------------------
(* RGB <-> LAB *)

\* ch/255 > 0.04045 exactly when ch >= 11;
\* (ch/255 + 0.055)/1.055 = (40 ch + 561)/10761 and ch/255/12.92 = 10 ch/32946
GammaLinearOnly(ch) == ToFixed[10 * ch, 32946]
GammaExpand(ch) ==
    IF ch >= 11 THEN Pow24[ToFixed[40 * ch + 561, 10761]]
    ELSE ToFixed[10 * ch, 32946]

\* 0.008856 and 16/116 in fixed point
LabEpsilon == ToFixed[1107, 125000]
LabOffset == ToFixed[16, 116]

\* t > 0.008856 ? Math.pow(t, 1/3) : 7.787 * t + 16/116
LabF[t \in Int] == IF t > LabEpsilon THEN Root[3, t] ELSE MulDiv[t, 7787, 1000] + LabOffset

\* x, y, z of the linear r, g, b, divided by the white point
LinearToXyz[r \in Int, g \in Int, b \in Int] ==
    [x |-> MulDiv[MulDiv[r, 4124, 10000] + MulDiv[g, 3576, 10000] + MulDiv[b, 1805, 10000],
                  100000, 95047],
     y |-> MulDiv[r, 2126, 10000] + MulDiv[g, 7152, 10000] + MulDiv[b, 722, 10000],
     z |-> MulDiv[MulDiv[r, 193, 10000] + MulDiv[g, 1192, 10000] + MulDiv[b, 9505, 10000],
                  100000, 108883]]

\* the rounded l, a, b of fx, fy, fz
LabOfF[fx \in Int, fy \in Int, fz \in Int] ==
    [l |-> RoundScaled[116, fy] - 16,
     a |-> RoundScaled[500, fx - fy],
     b |-> RoundScaled[200, fy - fz]]

XyzTriple == [x : Int, y : Int, z : Int]

XyzToLab[xyz \in XyzTriple] == LabOfF[LabF[xyz.x], LabF[xyz.y], LabF[xyz.z]]

RGBColor == [r : Int, g : Int, b : Int]

rgbToLab[rgb \in RGBColor] ==
    XyzToLab[LinearToXyz[GammaExpand(rgb.r), GammaExpand(rgb.g), GammaExpand(rgb.b)]]

\* t^3 > 0.008856 ? t^3 : (t - 16/116) / 7.787
CubeOrLinear[t \in Int, t3 \in Int] ==
    IF t3 > LabEpsilon THEN t3 ELSE MulDiv[t - LabOffset, 1000, 7787]
LabFInv[t \in Int] == CubeOrLinear[t, FPow[t, 3]]

\* c > 0.0031308 ? 1.055 * Math.pow(c, 1/2.4) - 0.055 : 12.92 * c
GammaCompress[c \in Int] ==
    IF c > ToFixed[31308, 100000] \div 100
    THEN MulDiv[PowInv24[c], 1055, 1000] - ToFixed[55, 1000]
    ELSE MulDiv[c, 1292, 100]

LABColor == [l : Int, a : Int, b : Int]

\* fx, fy, fz of l, a, b
FOfLab[fy \in Int, lab \in LABColor] ==
    [x |-> ToFixed[lab.a, 500] + fy,
     y |-> fy,
     z |-> fy - ToFixed[lab.b, 200]]

\* x, y, z scaled by the white point
XyzOfF[f \in XyzTriple] ==
    [x |-> MulDiv[LabFInv[f.x], 95047, 100000],
     y |-> LabFInv[f.y],
     z |-> MulDiv[LabFInv[f.z], 108883, 100000]]

\* Math.max(0, Math.min(255, Math.round(c * 255))) of the gamma-compressed c
ToByte[c \in Int] == Clamp(0, ByteMax, RoundScaled[ByteMax, GammaCompress[c]])

XyzToRgb[xyz \in XyzTriple] ==
    [r |-> ToByte[MulDiv[xyz.x, 32406, 10000] - MulDiv[xyz.y, 15372, 10000]
                  - MulDiv[xyz.z, 4986, 10000]],
     g |-> ToByte[MulDiv[xyz.y, 18758, 10000] - MulDiv[xyz.x, 9689, 10000]
                  + MulDiv[xyz.z, 415, 10000]],
     b |-> ToByte[MulDiv[xyz.x, 557, 10000] - MulDiv[xyz.y, 2040, 10000]
                  + MulDiv[xyz.z, 10570, 10000]]]

labToRgb[lab \in LABColor] == XyzToRgb[XyzOfF[FOfLab[ToFixed[lab.l + 16, 116], lab]]]

----------------------------------------------------------------------------
(* Converter trials: one RGB triple, one converter pair applied to it *)

Models == {"RGB", "HSV", "CMYK", "LAB", "YUV"}

RLevels == {0, 1, 12, 36, 100, 200, 255}
GLevels == {0, 64, 115, 233, 250, 255}
BLevels == {0, 1, 65, 90, 248, 251, 254, 255}

RGBSamples == {[r |-> r0, g |-> g0, b |-> b0] : r0 \in RLevels, g0 \in GLevels, b0 \in BLevels}

NoValue == <<>>

\* the state of the buffer transformer while the converters are tried
CallIdle ==
    /\ heap = <<>>
    /\ imageData = NoValue
    /\ selectedModel = "RGB"
    /\ adjustments = NoValue
    /\ result = NoValue
    /\ pc = "idle"

\* no string returned yet: getColorInModel never returns the empty string
NoText == ""

\* the state of the formatter while something else is tried
FormatIdle ==
    /\ tag = NoValue
    /\ text = NoText

\* the state of the page while something else is tried
UiIdle ==
    /\ page = NoValue
    /\ panel = NoValue
    /\ rendered = NoValue
    /\ ui = NoValue
    /\ workspace = NoValue
    /\ gallery = NoValue
    /\ drawn = NoValue
    /\ lastEvent = "other"

\* the state of the pixel probe while something else is tried
ProbeIdle == probe = NoValue

InitConv ==
    /\ input \in RGBSamples
    /\ conv = "none"
    /\ fwd = NoValue
    /\ back = NoValue
    /\ CallIdle
    /\ FormatIdle
    /\ UiIdle
    /\ ProbeIdle

TryHsv ==
    /\ conv = "none"
    /\ conv' = "HSV"
    /\ fwd' = rgbToHsv(input)
    /\ back' = hsvToRgb(rgbToHsv(input))
    /\ UNCHANGED <<input, callVars, formatVars, uiVars, probe>>

TryCmyk ==
    /\ conv = "none"
    /\ conv' = "CMYK"
    /\ fwd' = rgbToCmyk(input)
    /\ back' = cmykToRgb(rgbToCmyk(input))
    /\ UNCHANGED <<input, callVars, formatVars, uiVars, probe>>

TryLab ==
    /\ conv = "none"
    /\ conv' = "LAB"
    /\ fwd' = rgbToLab[input]
    /\ back' = labToRgb[rgbToLab[input]]
    /\ UNCHANGED <<input, callVars, formatVars, uiVars, probe>>

TryYuv ==
    /\ conv = "none"
    /\ conv' = "YUV"
    /\ fwd' = rgbToYuv(input)
    /\ back' = yuvToRgb(rgbToYuv(input))
    /\ UNCHANGED <<input, callVars, formatVars, uiVars, probe>>

NextConv == TryHsv \/ TryCmyk \/ TryLab \/ TryYuv

SpecConv == InitConv /\ [][NextConv]_vars

----------------------------------------------------------------------------
(* getColorInModel: a template literal puts each number in decimal, with a *)
(* leading - when negative, between the fixed pieces of the format        *)

getColorInModelNameOnly(rgb, model) ==
    IF model = "RGB"
    THEN "RGB(" \o ToString(rgb.r) \o ", " \o ToString(rgb.g) \o ", " \o ToString(rgb.b) \o ")"
    ELSE model \o "()"
getColorInModel(rgb, model) ==
    CASE model = "HSV" ->
           "HSV(" \o ToString(rgbToHsv(rgb).h) \o "°, " \o ToString(rgbToHsv(rgb).s) \o "%, "
                  \o ToString(rgbToHsv(rgb).v) \o "%)"
      [] model = "CMYK" ->
           "CMYK(" \o ToString(rgbToCmyk(rgb).c) \o "%, " \o ToString(rgbToCmyk(rgb).m) \o "%, "
                   \o ToString(rgbToCmyk(rgb).y) \o "%, " \o ToString(rgbToCmyk(rgb).k) \o "%)"
      [] model = "LAB" ->
           "LAB(" \o ToString(rgbToLab[rgb].l) \o ", " \o ToString(rgbToLab[rgb].a) \o ", "
                  \o ToString(rgbToLab[rgb].b) \o ")"
      [] model = "YUV" ->
           "YUV(" \o ToString(rgbToYuv(rgb).y) \o ", " \o ToString(rgbToYuv(rgb).u) \o ", "
                  \o ToString(rgbToYuv(rgb).v) \o ")"
      [] OTHER ->
           "RGB(" \o ToString(rgb.r) \o ", " \o ToString(rgb.g) \o ", " \o ToString(rgb.b) \o ")"

\* the model argument at run time: the five tags of ColorModel, and a string
\* that is none of them
ModelTags == Models \cup {"XYZ"}

InitFormat ==
    /\ input \in RGBSamples
    /\ tag \in ModelTags
    /\ text = NoText
    /\ conv = "none"
    /\ fwd = NoValue
    /\ back = NoValue
    /\ CallIdle
    /\ UiIdle
    /\ ProbeIdle

Format ==
    /\ text = NoText
    /\ text' = getColorInModel(input, tag)
    /\ UNCHANGED <<input, tag, conv, fwd, back, callVars, uiVars, probe>>

NextFormat == Format

SpecFormat == InitFormat /\ [][NextFormat]_vars

\* the largest per-channel distance between two RGB triples is at most d
Within(p, q, d) ==
    /\ Abs(p.r - q.r) <= d
    /\ Abs(p.g - q.g) <= d
    /\ Abs(p.b - q.b) <= d

----------------------------------------------------------------------------
(* transformImageData *)

\* the adjustments argument when the caller passes none
Undefined == [undefined |-> TRUE]

\* if (adjustments): every object is truthy, undefined is not
Truthy(adj) == "undefined" \notin DOMAIN adj

\* adjustments.hsv.h || 0: an absent delta counts as 0
Delta(rec, ch) == IF ch \in DOMAIN rec THEN rec[ch] ELSE 0

\* ColorAdjustmentPanel's defaultAdjustments
defaultAdjustments ==
    [rgb |-> [r |-> 0, g |-> 0, b |-> 0],
     hsv |-> [h |-> 0, s |-> 0, v |-> 0],
     cmyk |-> [c |-> 0, m |-> 0, y |-> 0, k |-> 0],
     lab |-> [l |-> 0, a |-> 0, b |-> 0],
     yuv |-> [y |-> 0, u |-> 0, v |-> 0]]

\* case 'RGB': r, g, b shifted and clamped
AdjustRgbSkipped(rgb, d) == rgb
AdjustRgb(rgb, d) ==
    [r |-> Clamp(0, ByteMax, rgb.r + Delta(d, "r")),
     g |-> Clamp(0, ByteMax, rgb.g + Delta(d, "g")),
     b |-> Clamp(0, ByteMax, rgb.b + Delta(d, "b"))]

\* hsv.h = (hsv.h + (adjustments.hsv.h || 0) + 360) % 360
HueClamped(h, d) == Clamp(0, 359, h + d)
AdjustedHue(h, d) == JsRem(h + d + 360, 360)

\* case 'HSV': hsv is rgbToHsv(r, g, b); the record handed to hsvToRgb
AdjustedHsv(hsv, d) ==
    [h |-> AdjustedHue(hsv.h, Delta(d, "h")),
     s |-> Clamp(0, 100, hsv.s + Delta(d, "s")),
     v |-> Clamp(0, 100, hsv.v + Delta(d, "v"))]

AdjustHsv(hsv, d) == hsvToRgb(AdjustedHsv(hsv, d))

\* case 'CMYK': cmyk is rgbToCmyk(r, g, b); the record handed to cmykToRgb
AdjustedCmyk(cmyk, d) ==
    [c |-> Clamp(0, 100, cmyk.c + Delta(d, "c")),
     m |-> Clamp(0, 100, cmyk.m + Delta(d, "m")),
     y |-> Clamp(0, 100, cmyk.y + Delta(d, "y")),
     k |-> Clamp(0, 100, cmyk.k + Delta(d, "k"))]

AdjustCmyk(cmyk, d) == cmykToRgb(AdjustedCmyk(cmyk, d))

\* case 'LAB': lab is rgbToLab(r, g, b); the record handed to labToRgb
AdjustedLab(lab, d) ==
    [l |-> Clamp(0, 100, lab.l + Delta(d, "l")),
     a |-> Clamp(-128, 127, lab.a + Delta(d, "a")),
     b |-> Clamp(-128, 127, lab.b + Delta(d, "b"))]

AdjustLab(lab, d) == labToRgb[AdjustedLab(lab, d)]

\* case 'YUV': yuv is rgbToYuv(r, g, b); the record handed to yuvToRgb
AdjustedYuv(yuv, d) ==
    [y |-> Clamp(0, ByteMax, yuv.y + Delta(d, "y")),
     u |-> Clamp(0, ByteMax, yuv.u + Delta(d, "u")),
     v |-> Clamp(0, ByteMax, yuv.v + Delta(d, "v"))]

AdjustYuv(yuv, d) == yuvToRgb(AdjustedYuv(yuv, d))

\* "Apply manual adjustments first": the RGB triple handed to the remap
AdjustChannelsEveryEntry(rgb, model, adj) ==
    IF ~Truthy(adj) THEN rgb
    ELSE IF "rgb" \in DOMAIN adj THEN AdjustRgb(rgb, adj.rgb)
    ELSE IF "hsv" \in DOMAIN adj THEN AdjustHsv(rgbToHsv(rgb), adj.hsv)
    ELSE rgb
AdjustChannels(rgb, model, adj) ==
    IF ~Truthy(adj) THEN rgb
    ELSE IF model = "RGB" /\ "rgb" \in DOMAIN adj THEN AdjustRgb(rgb, adj.rgb)
    ELSE IF model = "HSV" /\ "hsv" \in DOMAIN adj THEN AdjustHsv(rgbToHsv(rgb), adj.hsv)
    ELSE IF model = "CMYK" /\ "cmyk" \in DOMAIN adj THEN AdjustCmyk(rgbToCmyk(rgb), adj.cmyk)
    ELSE IF model = "LAB" /\ "lab" \in DOMAIN adj THEN AdjustLab(rgbToLab[rgb], adj.lab)
    ELSE IF model = "YUV" /\ "yuv" \in DOMAIN adj THEN AdjustYuv(rgbToYuv(rgb), adj.yuv)
    ELSE rgb

\* a store of the number n/d (d > 0) into a Uint8ClampedArray element:
\* clamped to [0, 255], rounded to the nearest integer, halves to even
NearestEven(q, twice, d) ==
    IF twice < d THEN q
    ELSE IF twice > d THEN q + 1
    ELSE IF q % 2 = 0 THEN q ELSE q + 1

ToUint8Clamp(n, d) ==
    IF n <= 0 THEN 0
    ELSE IF n >= ByteMax * d THEN ByteMax
    ELSE NearestEven(n \div d, 2 * (n % d), d)

\* "Apply color model transformation for visualization": the three bytes stored
\* case 'HSV': hsv is rgbToHsv(r, g, b) of the adjusted channels
RemapHsvDamped(rgb, hsv) ==
    <<ToUint8Clamp(Min2(ByteMax * 200, rgb.r * (200 - hsv.s)), 200),
      ToUint8Clamp(Min2(ByteMax * 200, rgb.g * (200 - hsv.s)), 200),
      ToUint8Clamp(Min2(ByteMax * 200, rgb.b * (200 - hsv.v)), 200)>>
RemapHsv(rgb, hsv) ==
    <<ToUint8Clamp(Min2(ByteMax * 200, rgb.r * (200 + hsv.s)), 200),
      ToUint8Clamp(Min2(ByteMax * 200, rgb.g * (200 + hsv.s)), 200),
      ToUint8Clamp(Min2(ByteMax * 200, rgb.b * (200 + hsv.v)), 200)>>

\* case 'CMYK'
RemapCmykInkOnly(cmyk) ==
    <<ToUint8Clamp(Max2(0, ByteMax * 100 - cmyk.c * 255), 100),
      ToUint8Clamp(Max2(0, ByteMax * 100 - cmyk.m * 255), 100),
      ToUint8Clamp(Max2(0, ByteMax * 100 - cmyk.y * 255), 100)>>
RemapCmyk(cmyk) ==
    <<ToUint8Clamp(Max2(0, ByteMax * 100 - (cmyk.c * 255 + cmyk.k * 255)), 100),
      ToUint8Clamp(Max2(0, ByteMax * 100 - (cmyk.m * 255 + cmyk.k * 255)), 100),
      ToUint8Clamp(Max2(0, ByteMax * 100 - (cmyk.y * 255 + cmyk.k * 255)), 100)>>

\* case 'LAB'
RemapLab(lab) ==
    <<ToUint8Clamp(Clamp(0, ByteMax * 100, lab.l * 255), 100),
      ToUint8Clamp(Clamp(0, ByteMax, lab.a + 128), 1),
      ToUint8Clamp(Clamp(0, ByteMax, lab.b + 128), 1)>>

\* case 'YUV'
RemapYuv(yuv) == <<ToUint8Clamp(yuv.y, 1), ToUint8Clamp(yuv.u, 1), ToUint8Clamp(yuv.v, 1)>>

\* case 'RGB' and default: the adjusted channels as they are
RemapRgb(rgb) == <<ToUint8Clamp(rgb.r, 1), ToUint8Clamp(rgb.g, 1), ToUint8Clamp(rgb.b, 1)>>

VisualizationRemap(rgb, model) ==
    IF model = "HSV" THEN RemapHsv(rgb, rgbToHsv(rgb))
    ELSE IF model = "CMYK" THEN RemapCmyk(rgbToCmyk(rgb))
    ELSE IF model = "LAB" THEN RemapLab(rgbToLab[rgb])
    ELSE IF model = "YUV" THEN RemapYuv(rgbToYuv(rgb))
    ELSE RemapRgb(rgb)

\* data[i], data[i + 1], data[i + 2] = out; data[i + 3] is not assigned
WritePixelOpaque(data, i, out) ==
    [data EXCEPT ![i + 1] = out[1], ![i + 2] = out[2], ![i + 3] = out[3], ![i + 4] = ByteMax]
WritePixel(data, i, out) ==
    [data EXCEPT ![i + 1] = out[1], ![i + 2] = out[2], ![i + 3] = out[3]]

\* for (let i = 0; i < data.length; i += 4) { ... }
\* let r = data[i]; let g = data[i + 1]; let b = data[i + 2]
PixelAtFirst(data, i) == [r |-> data[1], g |-> data[2], b |-> data[3]]
PixelAt(data, i) == [r |-> data[i + 1], g |-> data[i + 2], b |-> data[i + 3]]

\* one iteration of the loop: the three bytes stored for the pixel at i
PixelOut(data, i, model, adj) ==
    VisualizationRemap(AdjustChannels(PixelAt(data, i), model, adj), model)

RECURSIVE TransformLoop(_, _, _, _)
TransformLoop(data, i, model, adj) ==
    IF i >= Len(data) THEN data
    ELSE TransformLoop(WritePixel(data, i, PixelOut(data, i, model, adj)), i + 4, model, adj)

\* new Uint8ClampedArray(source): a new buffer holding a copy of the source's bytes
ViewOfArray(h, src) == [heap |-> h, id |-> src]
NewUint8ClampedArray(h, src) == [heap |-> Append(h, h[src]), id |-> Len(h) + 1]

\* the heap after the call and the ImageData it returns
\* the loop over the copy, then new ImageData(data, width, height)
LoopAndReturn(copy, img, model, adj) ==
    [heap |-> [copy.heap EXCEPT ![copy.id] = TransformLoop(copy.heap[copy.id], 0, model, adj)],
     ret |-> [data |-> copy.id, width |-> img.width, height |-> img.height]]

transformImageData(h, img, model, adj) ==
    LoopAndReturn(NewUint8ClampedArray(h, img.data), img, model, adj)

----------------------------------------------------------------------------
(* One call of transformImageData on a caller's image *)

MaxPixels == 2

\* the RGBA quadruples a buffer is built from
PixelQuads ==
    {<<0, 115, 251, 0>>, <<255, 0, 0, 128>>, <<200, 64, 90, 255>>,
     <<1, 0, 0, 128>>, <<0, 0, 0, 77>>}

\* the RGBA byte sequences of n pixels
RECURSIVE BuffersOf(_)
BuffersOf(n) ==
    IF n = 0 THEN {<<>>}
    ELSE {p \o rest : p \in PixelQuads, rest \in BuffersOf(n - 1)}

\* adjustment records a caller may pass: absent, {}, all zero, partial records
EmptyObject == <<>>

AdjustmentSamples ==
    {Undefined, EmptyObject, defaultAdjustments,
     [rgb |-> [r |-> 40, b |-> -255], hsv |-> [h |-> 90, s |-> -30],
      cmyk |-> [c |-> 20, k |-> -10], lab |-> [l |-> 10, a |-> -40],
      yuv |-> [y |-> -20, v |-> 50]],
     [hsv |-> [h |-> -180, v |-> 100], lab |-> [b |-> 128]],
     [hsv |-> [h |-> 370, s |-> -30], rgb |-> [g |-> 300], yuv |-> [u |-> -300]],
     [hsv |-> [h |-> -400], cmyk |-> [m |-> 150, y |-> -150], lab |-> [l |-> -200, a |-> 300]]}

ConvIdle ==
    /\ input = NoValue
    /\ conv = "none"
    /\ fwd = NoValue
    /\ back = NoValue

Init ==
    /\ \E n \in 1..MaxPixels, w \in 1..MaxPixels :
          /\ w <= n
          /\ n % w = 0
          /\ \E bytes \in BuffersOf(n) : heap = <<bytes>>
          /\ imageData = [data |-> 1, width |-> w, height |-> n \div w]
    /\ selectedModel \in Models
    /\ adjustments \in AdjustmentSamples
    /\ result = NoValue
    /\ pc = "idle"
    /\ ConvIdle
    /\ FormatIdle
    /\ UiIdle
    /\ ProbeIdle

\* the page calls transformImageData(imageData, selectedModel, adjustments)
Transform ==
    /\ pc = "idle"
    /\ \E call \in {transformImageData(heap, imageData, selectedModel, adjustments)} :
          /\ heap' = call.heap
          /\ result' = call.ret
    /\ pc' = "done"
    /\ UNCHANGED <<imageData, selectedModel, adjustments, convVars, formatVars, uiVars, probe>>

Next == Transform

Spec == Init /\ [][Next]_vars

----------------------------------------------------------------------------
(* Claims about transformImageData, checked under Spec *)

\* the number of pixels of a buffer
PixelCount(bytes) == Len(bytes) \div 4

\* C1: the returned buffer has the input's data length, width and height, and
\* the alpha byte (index 4n + 3) of every pixel n equals the input's.
ShapeAndAlphaPreserved ==
    pc = "done" =>
        LET src == heap[imageData.data]
            dst == heap[result.data]
        IN  /\ Len(dst) = Len(src)
            /\ result.width = imageData.width
            /\ result.height = imageData.height
            /\ \A n \in 0..(PixelCount(src) - 1) : dst[4 * n + 4] = src[4 * n + 4]

\* C1 witness: a two-pixel call changed colour bytes of a translucent pixel
ShapeAndAlphaWitness ==
    /\ pc = "done"
    /\ PixelCount(heap[result.data]) = 2
    /\ selectedModel = "LAB"
    /\ \E n \in 0..1 :
          /\ heap[result.data][4 * n + 4] = 128
          /\ heap[result.data][4 * n + 1] # heap[imageData.data][4 * n + 1]

\* C2: the call never writes to the caller's buffer, and the buffer it returns
\* is a distinct array allocated by the call.
InputBufferUntouched ==
    [][(pc = "idle" /\ pc' = "done") =>
          /\ heap'[imageData.data] = heap[imageData.data]
          /\ result'.data # imageData.data
          /\ result'.data \notin DOMAIN heap]_vars

\* C2 witness: the call returned bytes that differ from the caller's buffer
InputBufferWitness ==
    /\ pc = "done"
    /\ adjustments # Undefined
    /\ result.data # imageData.data
    /\ heap[result.data] # heap[imageData.data]

\* C3 (as claimed): with the all-zero record the call returns the bytes it
\* returns with no adjustments at all, for every model.
ZeroAdjustmentsAreNoOp ==
    (pc = "done" /\ adjustments = defaultAdjustments) =>
        heap[result.data] = TransformLoop(heap[imageData.data], 0, selectedModel, Undefined)

\* the RGB triple the adjuster hands to the remap for pixel n of the call
AdjustedPixel(n) ==
    AdjustChannels(PixelAt(heap[imageData.data], 4 * n), selectedModel, adjustments)

\* the pixel indices of the caller's buffer
PixelIndices == 0..(PixelCount(heap[imageData.data]) - 1)

\* C11 (as claimed): for every pixel, model and delta record, the triple handed
\* to the visualization remap has its three channels in [0, 255].
AdjustedChannelsAreBytes ==
    pc = "done" =>
        \A n \in PixelIndices :
            /\ AdjustedPixel(n).r \in 0..ByteMax
            /\ AdjustedPixel(n).g \in 0..ByteMax
            /\ AdjustedPixel(n).b \in 0..ByteMax

\* the call was made in HSV mode with a record whose hue delta is d
HsvCallWithHue(d) ==
    /\ pc = "done"
    /\ selectedModel = "HSV"
    /\ Truthy(adjustments)
    /\ "hsv" \in DOMAIN adjustments
    /\ "h" \in DOMAIN adjustments.hsv
    /\ adjustments.hsv.h = d

\* the bytes the loop returns for the caller's buffer in HSV mode when the hue
\* delta of the record is replaced by d
HsvBytesWithHue(d) ==
    TransformLoop(heap[imageData.data], 0, "HSV", [adjustments EXCEPT !.hsv.h = d])

\* C12: in HSV mode a call with hue delta +370 returns the bytes of the call
\* with hue delta +10 and the same saturation and value deltas.
HueShift370Is10 == HsvCallWithHue(370) => heap[result.data] = HsvBytesWithHue(10)

\* C12 witness: a call with hue delta +370 whose bytes differ from those of
\* the same call without a hue delta
HueShift370Witness == HsvCallWithHue(370) /\ heap[result.data] # HsvBytesWithHue(0)

\* the call took the adjuster's branch of the model whose entry is key
AdjustedIn(model, key) ==
    /\ pc = "done"
    /\ selectedModel = model
    /\ Truthy(adjustments)
    /\ key \in DOMAIN adjustments

\* the HSV record the adjuster hands to hsvToRgb for pixel n of the call
AdjustedHsvOfPixel(n) ==
    AdjustedHsv(rgbToHsv(PixelAt(heap[imageData.data], 4 * n)), adjustments.hsv)

\* C13 (as claimed): the adjusted hue of every pixel is (h + d) modulo 360
\* taken into [0, 360), for the hue h of rgbToHsv and the hue delta d.
AdjustedHueIsModulo360 ==
    AdjustedIn("HSV", "hsv") =>
        \A n \in PixelIndices :
            AdjustedHsvOfPixel(n).h =
                (rgbToHsv(PixelAt(heap[imageData.data], 4 * n)).h
                 + Delta(adjustments.hsv, "h")) % 360

\* the RGB triple of pixel n of the caller's buffer
SourcePixel(n) == PixelAt(heap[imageData.data], 4 * n)

\* the delta of channel ch in the entry d, 0 when the entry has none
DeltaOrZero(d, ch) == IF ch \in DOMAIN d THEN d[ch] ELSE 0

\* v is raw pinned into [lo, hi]
Pinned(v, raw, lo, hi) ==
    /\ v \in lo..hi
    /\ raw \in lo..hi => v = raw
    /\ raw < lo => v = lo
    /\ raw > hi => v = hi

\* every channel in chs of the adjusted record is the converted channel plus
\* its delta, pinned into [lo, hi]
ChannelsPinned(chs, converted, adjusted, d, lo, hi) ==
    \A ch \in chs : Pinned(adjusted[ch], converted[ch] + DeltaOrZero(d, ch), lo, hi)

\* C14: the adjuster clamps each non-hue adjusted channel to its model range
\* before converting back (HSV s, v and CMYK c, m, y, k to [0, 100]; LAB l to
\* [0, 100] and a, b to [-128, 127]; YUV y, u, v to [0, 255]), an absent delta
\* counting as 0.
AdjustedChannelsClamped ==
    /\ AdjustedIn("HSV", "hsv") =>
          \A n \in PixelIndices :
              ChannelsPinned({"s", "v"}, rgbToHsv(SourcePixel(n)),
                             AdjustedHsv(rgbToHsv(SourcePixel(n)), adjustments.hsv),
                             adjustments.hsv, 0, 100)
    /\ AdjustedIn("CMYK", "cmyk") =>
          \A n \in PixelIndices :
              ChannelsPinned({"c", "m", "y", "k"}, rgbToCmyk(SourcePixel(n)),
                             AdjustedCmyk(rgbToCmyk(SourcePixel(n)), adjustments.cmyk),
                             adjustments.cmyk, 0, 100)
    /\ AdjustedIn("LAB", "lab") =>
          \A n \in PixelIndices :
              /\ ChannelsPinned({"l"}, rgbToLab[SourcePixel(n)],
                                AdjustedLab(rgbToLab[SourcePixel(n)], adjustments.lab),
                                adjustments.lab, 0, 100)
              /\ ChannelsPinned({"a", "b"}, rgbToLab[SourcePixel(n)],
                                AdjustedLab(rgbToLab[SourcePixel(n)], adjustments.lab),
                                adjustments.lab, -128, 127)
    /\ AdjustedIn("YUV", "yuv") =>
          \A n \in PixelIndices :
              ChannelsPinned({"y", "u", "v"}, rgbToYuv(SourcePixel(n)),
                             AdjustedYuv(rgbToYuv(SourcePixel(n)), adjustments.yuv),
                             adjustments.yuv, 0, ByteMax)

\* C14 witness: a LAB call whose entry has no b delta and whose l and a deltas
\* push a pixel below 0 and above 127
AdjustedChannelsClampedWitness ==
    /\ AdjustedIn("LAB", "lab")
    /\ "b" \notin DOMAIN adjustments.lab
    /\ \E n \in PixelIndices :
          /\ rgbToLab[SourcePixel(n)].l + adjustments.lab.l < 0
          /\ rgbToLab[SourcePixel(n)].a + adjustments.lab.a > 127
          /\ AdjustedLab(rgbToLab[SourcePixel(n)], adjustments.lab) =
                 [l |-> 0, a |-> 127, b |-> rgbToLab[SourcePixel(n)].b]

\* the key of the adjustments entry of a model
EntryKey(model) ==
    CASE model = "RGB" -> "rgb"
      [] model = "HSV" -> "hsv"
      [] model = "CMYK" -> "cmyk"
      [] model = "LAB" -> "lab"
      [] model = "YUV" -> "yuv"

\* two adjustment records agree on the entry of a model
AgreeOnEntry(adj1, adj2, model) ==
    /\ EntryKey(model) \in DOMAIN adj1 <=> EntryKey(model) \in DOMAIN adj2
    /\ EntryKey(model) \in DOMAIN adj1 => adj1[EntryKey(model)] = adj2[EntryKey(model)]

\* the record adj with the entries of the models other than model replaced
\* by those of other
OtherEntries(adj, other, model) ==
    [key \in (DOMAIN other \ {EntryKey(model)}) \cup (DOMAIN adj \cap {EntryKey(model)}) |->
        IF key = EntryKey(model) THEN adj[key] ELSE other[key]]

\* records whose entries stand for what the other models' entries may hold:
\* nothing, zero deltas, and non-zero deltas for every model
StaleSamples ==
    {EmptyObject, defaultAdjustments,
     [rgb |-> [r |-> 40, b |-> -255], hsv |-> [h |-> 90, s |-> -30],
      cmyk |-> [c |-> 20, k |-> -10], lab |-> [l |-> 10, a |-> -40],
      yuv |-> [y |-> -20, v |-> 50]]}

\* C15: the bytes returned depend only on the adjustments entry of the
\* selected model: every record that agrees with the one passed on that entry
\* gives the same bytes.
OnlySelectedEntryMatters ==
    (pc = "done" /\ Truthy(adjustments)) =>
        \A other \in StaleSamples :
              /\ AgreeOnEntry(adjustments, OtherEntries(adjustments, other, selectedModel),
                              selectedModel)
              /\ heap[result.data] =
                    TransformLoop(heap[imageData.data], 0, selectedModel,
                                  OtherEntries(adjustments, other, selectedModel))

\* C15 witness: a call whose record holds deltas for the selected model and
\* for other models, and whose bytes the selected entry changed
OnlySelectedEntryWitness ==
    /\ pc = "done"
    /\ selectedModel = "CMYK"
    /\ Truthy(adjustments)
    /\ {"cmyk", "hsv", "lab"} \subseteq DOMAIN adjustments
    /\ adjustments # defaultAdjustments
    /\ heap[result.data] # TransformLoop(heap[imageData.data], 0, selectedModel, Undefined)

\* the RGB delta of channel ch the call was given: 0 when there are no
\* adjustments, no rgb entry or no delta for ch
RgbDelta(ch) ==
    IF Truthy(adjustments) /\ "rgb" \in DOMAIN adjustments
    THEN DeltaOrZero(adjustments.rgb, ch) ELSE 0

\* C16: in RGB mode each output colour byte is the input byte plus the
\* channel's RGB delta, pinned into [0, 255]; with no adjustments the output
\* bytes are the input bytes.
RgbModeAddsAndClamps ==
    (pc = "done" /\ selectedModel = "RGB") =>
        /\ \A n \in PixelIndices :
              /\ Pinned(heap[result.data][4 * n + 1], SourcePixel(n).r + RgbDelta("r"), 0, ByteMax)
              /\ Pinned(heap[result.data][4 * n + 2], SourcePixel(n).g + RgbDelta("g"), 0, ByteMax)
              /\ Pinned(heap[result.data][4 * n + 3], SourcePixel(n).b + RgbDelta("b"), 0, ByteMax)
        /\ ~Truthy(adjustments) => heap[result.data] = heap[imageData.data]

\* C16 witness: an RGB call with a red delta, no green delta and a blue delta
\* that pins a non-zero blue byte to 0
RgbModeWitness ==
    /\ AdjustedIn("RGB", "rgb")
    /\ "g" \notin DOMAIN adjustments.rgb
    /\ \E n \in PixelIndices :
          /\ SourcePixel(n).b > 0
          /\ heap[result.data][4 * n + 3] = 0
          /\ heap[result.data][4 * n + 1] = SourcePixel(n).r + adjustments.rgb.r

\* the loop run from the last pixel to the first: i is the offset after the
\* pixel to process
RECURSIVE TransformLoopReversed(_, _, _, _)
TransformLoopReversed(data, i, model, adj) ==
    IF i <= 0 THEN data
    ELSE TransformLoopReversed(WritePixel(data, i - 4, PixelOut(data, i - 4, model, adj)),
                               i - 4, model, adj)

\* the four bytes of pixel n of a buffer
PixelBytes(bytes, n) == SubSeq(bytes, 4 * n + 1, 4 * n + 4)

\* C17: output pixel n is a function of input pixel n, the model and the
\* adjustments only (it is what the loop body gives for that pixel alone), and
\* the loop run in reverse order returns the same buffer.
PixelsAreIndependent ==
    pc = "done" =>
        /\ \A n \in PixelIndices :
              SubSeq(heap[result.data], 4 * n + 1, 4 * n + 3) =
                  PixelOut(PixelBytes(heap[imageData.data], n), 0, selectedModel, adjustments)
        /\ heap[result.data] =
              TransformLoopReversed(heap[imageData.data], Len(heap[imageData.data]),
                                    selectedModel, adjustments)

\* C17 witness: a call on two different pixels, in a mode that remaps, that
\* returned two different pixels
PixelsAreIndependentWitness ==
    /\ pc = "done"
    /\ selectedModel = "LAB"
    /\ Truthy(adjustments)
    /\ PixelCount(heap[imageData.data]) = 2
    /\ PixelBytes(heap[imageData.data], 0) # PixelBytes(heap[imageData.data], 1)
    /\ PixelBytes(heap[result.data], 0) # PixelBytes(heap[result.data], 1)
    /\ PixelBytes(heap[result.data], 1) # PixelBytes(heap[imageData.data], 1)

\* the three colour bytes the call returned for pixel n
OutputPixel(n) == SubSeq(heap[result.data], 4 * n + 1, 4 * n + 3)

\* C24 (as claimed): in YUV mode the three output bytes of every pixel are the
\* y, u, v that rgbToYuv returns for the adjusted triple, unchanged.
YuvModeWritesYuv ==
    (pc = "done" /\ selectedModel = "YUV") =>
        \A n \in PixelIndices :
            OutputPixel(n) = <<rgbToYuv(AdjustedPixel(n)).y, rgbToYuv(AdjustedPixel(n)).u,
                              rgbToYuv(AdjustedPixel(n)).v>>

\* b is the byte a Uint8ClampedArray holds after the number n/d (d > 0) is
\* stored: 0 below 0, 255 above 255, else the nearest integer, the even one
\* of two equally near
IsByteOf(b, n, d) ==
    /\ b \in 0..ByteMax
    /\ n <= 0 => b = 0
    /\ n >= ByteMax * d => b = ByteMax
    /\ (n > 0 /\ n < ByteMax * d) =>
          /\ 2 * Abs(b * d - n) <= d
          /\ 2 * Abs(b * d - n) = d => b % 2 = 0

\* max(0, 255 - (ink * 2.55 + k * 2.55)) in units of 1/100
Darkened(ink, k) == Max2(0, ByteMax * 100 - (ink * 255 + k * 255))

\* C25: in CMYK mode, with (c, m, y, k) = rgbToCmyk of the adjusted triple, the
\* output bytes of every pixel are max(0, 255 - (ink * 2.55 + k * 2.55))
\* stored as bytes, for ink = c (red), m (green), y (blue).
CmykModeDarkensByInk ==
    (pc = "done" /\ selectedModel = "CMYK") =>
        \A n \in PixelIndices :
            /\ IsByteOf(OutputPixel(n)[1],
                        Darkened(rgbToCmyk(AdjustedPixel(n)).c, rgbToCmyk(AdjustedPixel(n)).k), 100)
            /\ IsByteOf(OutputPixel(n)[2],
                        Darkened(rgbToCmyk(AdjustedPixel(n)).m, rgbToCmyk(AdjustedPixel(n)).k), 100)
            /\ IsByteOf(OutputPixel(n)[3],
                        Darkened(rgbToCmyk(AdjustedPixel(n)).y, rgbToCmyk(AdjustedPixel(n)).k), 100)

\* C25 witness: a CMYK call whose deltas changed a pixel before the remap,
\* and whose remap of that pixel found both ink and key
CmykModeWitness ==
    /\ AdjustedIn("CMYK", "cmyk")
    /\ \E n \in PixelIndices :
          /\ AdjustedPixel(n) # SourcePixel(n)
          /\ rgbToCmyk(AdjustedPixel(n)) # rgbToCmyk(SourcePixel(n))
          /\ rgbToCmyk(AdjustedPixel(n)).m > 0
          /\ rgbToCmyk(AdjustedPixel(n)).k > 0
          /\ OutputPixel(n)[2] < ByteMax
          /\ OutputPixel(n)[2] > 0

\* min(255, channel * (1 + scale / 200)) in units of 1/200
Boosted(channel, scale) == Min2(ByteMax * 200, channel * (200 + scale))

\* C26: in HSV mode, with (h, s, v) = rgbToHsv of the adjusted triple, the red
\* and green output bytes are min(255, channel * (1 + s/200)) and the blue one
\* is min(255, channel * (1 + v/200)), stored as bytes; no output byte is
\* smaller than the adjusted channel it comes from.
HsvModeBoosts ==
    (pc = "done" /\ selectedModel = "HSV") =>
        \A n \in PixelIndices :
            /\ IsByteOf(OutputPixel(n)[1],
                        Boosted(AdjustedPixel(n).r, rgbToHsv(AdjustedPixel(n)).s), 200)
            /\ IsByteOf(OutputPixel(n)[2],
                        Boosted(AdjustedPixel(n).g, rgbToHsv(AdjustedPixel(n)).s), 200)
            /\ IsByteOf(OutputPixel(n)[3],
                        Boosted(AdjustedPixel(n).b, rgbToHsv(AdjustedPixel(n)).v), 200)
            /\ OutputPixel(n)[1] >= AdjustedPixel(n).r
            /\ OutputPixel(n)[2] >= AdjustedPixel(n).g
            /\ OutputPixel(n)[3] >= AdjustedPixel(n).b

\* C26 witness: an HSV call whose deltas changed a pixel, one byte of which
\* the remap raised without reaching 255
HsvModeWitness ==
    /\ AdjustedIn("HSV", "hsv")
    /\ \E n \in PixelIndices :
          /\ AdjustedPixel(n) # SourcePixel(n)
          /\ OutputPixel(n)[3] > AdjustedPixel(n).b
          /\ OutputPixel(n)[3] < ByteMax

----------------------------------------------------------------------------
(* Claims about the converters, checked under SpecConv *)

\* C4 (as claimed): hsvToRgb(rgbToHsv(rgb)) is within 2 of rgb in each channel.
HsvRoundTripWithin2 == conv = "HSV" => Within(back, input, 2)

\* C4 (amended): hsvToRgb(rgbToHsv(rgb)) is within 3 of rgb in each channel.
HsvRoundTripWithin3 == conv = "HSV" => Within(back, input, 3)

\* C4 witness: a triple whose HSV round trip drifts by exactly 3
HsvDriftOfThree == conv = "HSV" /\ ~Within(back, input, 2) /\ Within(back, input, 3)

\* C5 (as claimed): yuvToRgb(rgbToYuv(rgb)) is within 2 of rgb in each channel.
YuvRoundTripWithin2 == conv = "YUV" => Within(back, input, 2)

\* C6: cmykToRgb(rgbToCmyk(rgb)) is within 2 of rgb in each channel.
CmykRoundTripWithin2 == conv = "CMYK" => Within(back, input, 2)

\* C6 witness: a triple with some ink and some key whose round trip drifts by 2
CmykDriftOfTwo ==
    /\ conv = "CMYK"
    /\ fwd.k > 0
    /\ fwd.k < 100
    /\ ~Within(back, input, 1)

\* C7 (as claimed): labToRgb(rgbToLab(rgb)) is within 3 of rgb in each channel.
LabRoundTripWithin3 == conv = "LAB" => Within(back, input, 3)

\* C7 (amended): labToRgb(rgbToLab(rgb)) is within 28 of rgb in each channel.
LabRoundTripWithin28 == conv = "LAB" => Within(back, input, 28)

\* C7 witness: a triple whose LAB round trip drifts by exactly 28
LabDriftOfTwentyEight == conv = "LAB" /\ ~Within(back, input, 27)

\* C8 (as claimed): each of y, u, v returned by rgbToYuv lies in [0, 255].
YuvChannelsAreBytes ==
    conv = "YUV" => (fwd.y \in 0..ByteMax /\ fwd.u \in 0..ByteMax /\ fwd.v \in 0..ByteMax)

\* C9 (as claimed): if rgbToCmyk returns k = 100 then c = m = y = 0.
CmykBlackHasNoInk ==
    (conv = "CMYK" /\ fwd.k = 100) => (fwd.c = 0 /\ fwd.m = 0 /\ fwd.y = 0)

\* C10: rgbToHsv returns 0 <= h < 360 and s, v in [0, 100].
HsvInRange ==
    conv = "HSV" => (fwd.h \in 0..359 /\ fwd.s \in 0..100 /\ fwd.v \in 0..100)

\* C10 witness: red is the maximum and green < blue, so the hue was wrapped
HsvHueWrapped ==
    /\ conv = "HSV"
    /\ input.r >= input.b
    /\ input.b > input.g
    /\ fwd.h >= 300

\* the input of the converter trial is the triple (r0, g0, b0)
InputIs(r0, g0, b0) == input = [r |-> r0, g |-> g0, b |-> b0]

\* C19: rgbToHsv gives {0,0,0} for black, {0,100,100} for red and
\* {120,100,100} for green; the hue is 0 when max = min, the saturation is 0
\* when max = 0, and otherwise the hue lies in the sector of the maximum
\* channel (red first, then green, then blue).
HsvKnownValuesAndSectors ==
    conv = "HSV" =>
        /\ InputIs(0, 0, 0) => fwd = [h |-> 0, s |-> 0, v |-> 0]
        /\ InputIs(255, 0, 0) => fwd = [h |-> 0, s |-> 100, v |-> 100]
        /\ InputIs(0, 255, 0) => fwd = [h |-> 120, s |-> 100, v |-> 100]
        /\ (input.r = input.g /\ input.g = input.b) => fwd.h = 0
        /\ (input.r = 0 /\ input.g = 0 /\ input.b = 0) => fwd.s = 0
        /\ ~(input.r = input.g /\ input.g = input.b) =>
              IF input.r >= input.g /\ input.r >= input.b
              THEN fwd.h \in (0..60) \cup (300..359)
              ELSE IF input.g >= input.b
              THEN fwd.h \in 60..180
              ELSE fwd.h \in 180..300

\* C19 witness: green was converted, its hue taken from the green sector
HsvGreenWitness == conv = "HSV" /\ InputIs(0, 255, 0) /\ fwd.h = 120

\* C20: rgbToCmyk gives {0,0,0,0} for white and {0,0,0,100} for black, whose
\* inks come from the k = 1 branch and not from a division by 1 - k = 0.
CmykWhiteAndBlack ==
    conv = "CMYK" =>
        /\ InputIs(255, 255, 255) => fwd = [c |-> 0, m |-> 0, y |-> 0, k |-> 0]
        /\ InputIs(0, 0, 0) => fwd = [c |-> 0, m |-> 0, y |-> 0, k |-> 100]

\* C20 witness: black was converted and came out as pure key
CmykBlackWitness == conv = "CMYK" /\ InputIs(0, 0, 0) /\ fwd.k = 100 /\ fwd.c = 0

\* C21: rgbToYuv of white (255, 255, 255) returns y within 1 of 255 and u, v
\* within 1 of 128.
YuvOfWhite ==
    (conv = "YUV" /\ InputIs(255, 255, 255)) =>
        /\ Abs(fwd.y - 255) <= 1
        /\ Abs(fwd.u - 128) <= 1
        /\ Abs(fwd.v - 128) <= 1

\* C21 witness: white was converted, its chroma channels re-centred on 128
YuvOfWhiteWitness == conv = "YUV" /\ InputIs(255, 255, 255) /\ fwd.y = 255 /\ fwd.u = 128

----------------------------------------------------------------------------
(* Claims about getColorInModel, checked under SpecFormat *)

\* the pieces of a rendered colour: name(v1 unit1, v2 unit2, ...)
RECURSIVE JoinFields(_, _)
JoinFields(values, units) ==
    IF values = <<>> THEN ""
    ELSE ToString(Head(values)) \o Head(units)
         \o (IF Len(values) > 1 THEN ", " ELSE "") \o JoinFields(Tail(values), Tail(units))

Rendered(name, values, units) == name \o "(" \o JoinFields(values, units) \o ")"

\* C18: getColorInModel renders RGB(r, g, b), HSV(h°, s%, v%), CMYK(c%, m%, y%, k%),
\* LAB(l, a, b) or YUV(y, u, v) from the model's converter, a tag outside the
\* five gives the RGB format, and ({255,0,0}, 'HSV') gives "HSV(0°, 100%, 100%)".
FormatPerModel ==
    text # NoText =>
        /\ tag = "HSV" =>
              text = Rendered("HSV", <<rgbToHsv(input).h, rgbToHsv(input).s, rgbToHsv(input).v>>,
                              <<"°", "%", "%">>)
        /\ tag = "CMYK" =>
              text = Rendered("CMYK", <<rgbToCmyk(input).c, rgbToCmyk(input).m,
                                       rgbToCmyk(input).y, rgbToCmyk(input).k>>,
                              <<"%", "%", "%", "%">>)
        /\ tag = "LAB" =>
              text = Rendered("LAB", <<rgbToLab[input].l, rgbToLab[input].a, rgbToLab[input].b>>,
                              <<"", "", "">>)
        /\ tag = "YUV" =>
              text = Rendered("YUV", <<rgbToYuv(input).y, rgbToYuv(input).u, rgbToYuv(input).v>>,
                              <<"", "", "">>)
        /\ tag \notin {"HSV", "CMYK", "LAB", "YUV"} =>
              text = Rendered("RGB", <<input.r, input.g, input.b>>, <<"", "", "">>)
        /\ (tag = "HSV" /\ input = [r |-> 255, g |-> 0, b |-> 0]) => text = "HSV(0°, 100%, 100%)"

\* C18 witness: a tag outside the five was rendered in the RGB format
FormatFallbackWitness ==
    /\ tag \notin Models
    /\ input = [r |-> 255, g |-> 0, b |-> 0]
    /\ text = "RGB(255, 0, 0)"

----------------------------------------------------------------------------
(* The page: Index, ColorAdjustmentPanel, ImageWorkspace and ImageGallery.   *)
(*                                                                         *)
(* React runs a component's body (a render) after a state update, then the *)
(* passive effects of that commit, children in document order: the panel's *)
(* effect, then the workspace's, then the gallery's.  A callback sees the   *)
(* props of the render that made it.  State updates made inside effects are *)
(* batched and rendered after all effects of the commit have run.  Effects  *)
(* of a render caused by a click are flushed before the next user event, so *)
(* user events are taken when the page has settled; an image's load event   *)
(* may come at any time.  Objects are compared by their contents: a state   *)
(* update with a new object of the same contents only causes a repeated,    *)
(* identical drawing.                                                       *)
(*                                                                         *)
(* An image is of one colour.  A canvas is kept as its size and the RGBA    *)
(* quadruple that every pixel of it holds; transformImageData treats each   *)
(* pixel by itself, so its loop body applied to the quadruple gives the     *)
(* quadruple of every pixel of the transformed canvas.                      *)

\* const maxWidth = 400; const maxHeight = 300
maxWidth == 400
maxHeight == 300

\* the image shown by the gallery card and dropped on the workspace
Image == [naturalWidth |-> 2, naturalHeight |-> 1, fill |-> <<200, 64, 90, 255>>]

\* the values a slider is moved to
SliderValues == {0, 40}

\* the sliders renderSliders shows for a model
Channels(model) ==
    CASE model = "RGB" -> {"r", "g", "b"}
      [] model = "HSV" -> {"h", "s", "v"}
      [] model = "CMYK" -> {"c", "m", "y", "k"}
      [] model = "LAB" -> {"l", "a", "b"}
      [] model = "YUV" -> {"y", "u", "v"}

\* Object.values(adjustments).some(m => m && Object.values(m).some(v => v !== 0))
hasAdjustmentsNever(adj) == FALSE
hasAdjustments(adj) ==
    /\ Truthy(adj)
    /\ \E key \in DOMAIN adj : \E ch \in DOMAIN adj[key] : adj[key][ch] # 0

\* the size ImageWorkspace gives its canvas: the image scaled by
\* Math.min(maxWidth / naturalWidth, maxHeight / naturalHeight)
WorkspaceSize(image) ==
    IF maxWidth * image.naturalHeight <= maxHeight * image.naturalWidth
    THEN [width |-> maxWidth, height |-> (maxWidth * image.naturalHeight) \div image.naturalWidth]
    ELSE [width |-> (maxHeight * image.naturalWidth) \div image.naturalHeight, height |-> maxHeight]

\* the size ImageGallery gives its canvas: the image's natural size
GallerySize(image) == [width |-> image.naturalWidth, height |-> image.naturalHeight]

\* getImageData of the whole canvas, transformImageData, putImageData
Transformed(fill, model, adj) == TransformLoop(fill, 0, model, adj)

\* drawImageOnCanvas with the props of a render: the canvas after it and
\* whether transformImageData was called
drawImageOnCanvas(size, image, props) ==
    [canvas |->
        [width |-> size.width, height |-> size.height,
         fill |-> IF ~props.showOriginal \/ hasAdjustments(props.adjustments)
                  THEN Transformed(image.fill, props.selectedModel, props.adjustments)
                  ELSE image.fill],
     run |->
        [selectedModel |-> props.selectedModel, showOriginal |-> props.showOriginal,
         adjustments |-> props.adjustments,
         transformed |-> ~props.showOriginal \/ hasAdjustments(props.adjustments)]]

\* the canvas element holds nothing drawn by the page
NoCanvas == NoValue

\* updateAdjustment(model, channel, value): the spread of the panel's state
\* with one channel of one entry replaced
updateAdjustment(adj, key, channel, value) ==
    [k \in DOMAIN adj \cup {key} |->
        IF k = key
        THEN [c \in (IF key \in DOMAIN adj THEN DOMAIN adj[key] ELSE {}) \cup {channel} |->
                 IF c = channel THEN value ELSE adj[key][c]]
        ELSE adj[k]]

\* handleReset: setAdjustments(defaultAdjustments); onAdjustmentChange(defaultAdjustments)
handleResetPanelOnly(pg) == [panel |-> defaultAdjustments, page |-> pg]
handleReset(pg) ==
    [panel |-> defaultAdjustments, page |-> [pg EXCEPT !.adjustments = defaultAdjustments]]

\* the page after its first commit, before the effects of the mount
InitUi ==
    /\ page = [selectedModel |-> "RGB", showOriginal |-> TRUE, adjustments |-> EmptyObject]
    /\ panel = defaultAdjustments
    /\ rendered = [selectedModel |-> "RGB", showOriginal |-> TRUE, adjustments |-> EmptyObject]
    /\ ui = [phase |-> "effects", resetDue |-> TRUE]
    /\ workspace = [workspaceImage |-> FALSE, complete |-> FALSE, canvas |-> NoCanvas]
    /\ gallery = [complete |-> FALSE, canvas |-> NoCanvas]
    /\ drawn = NoValue
    /\ lastEvent = "other"
    /\ ConvIdle
    /\ CallIdle
    /\ FormatIdle
    /\ ProbeIdle

Settled == ui.phase = "settled"

\* ColorModelSelector: onModelChange(model), which is setSelectedModel; setting
\* the model already selected changes nothing
SelectModel ==
    /\ Settled
    /\ \E model \in Models \ {page.selectedModel} :
          page' = [page EXCEPT !.selectedModel = model]
    /\ ui' = [ui EXCEPT !.phase = "render"]
    /\ lastEvent' = "SelectModel"
    /\ drawn' = NoValue
    /\ UNCHANGED <<panel, rendered, workspace, gallery>>
    /\ UNCHANGED <<convVars, callVars, formatVars, probe>>

\* ViewToggle: onToggle, which is setShowOriginal(!showOriginal)
Toggle ==
    /\ Settled
    /\ page' = [page EXCEPT !.showOriginal = ~rendered.showOriginal]
    /\ ui' = [ui EXCEPT !.phase = "render"]
    /\ lastEvent' = "other"
    /\ drawn' = NoValue
    /\ UNCHANGED <<panel, rendered, workspace, gallery>>
    /\ UNCHANGED <<convVars, callVars, formatVars, probe>>

\* a slider of the selected model: updateAdjustment(model, channel, value)
MoveSlider ==
    /\ Settled
    /\ \E channel \in Channels(rendered.selectedModel), value \in SliderValues :
          /\ panel' = updateAdjustment(panel, EntryKey(rendered.selectedModel), channel, value)
          /\ page' = [page EXCEPT !.adjustments =
                         updateAdjustment(panel, EntryKey(rendered.selectedModel), channel, value)]
    /\ ui' = [ui EXCEPT !.phase = "render"]
    /\ lastEvent' = "other"
    /\ drawn' = NoValue
    /\ UNCHANGED <<rendered, workspace, gallery>>
    /\ UNCHANGED <<convVars, callVars, formatVars, probe>>

\* the Reset button: onClick={handleReset}
PressReset ==
    /\ Settled
    /\ panel' = handleReset(page).panel
    /\ page' = handleReset(page).page
    /\ ui' = [ui EXCEPT !.phase = "render"]
    /\ lastEvent' = "Reset"
    /\ drawn' = NoValue
    /\ UNCHANGED <<rendered, workspace, gallery>>
    /\ UNCHANGED <<convVars, callVars, formatVars, probe>>

\* handleDrop, handleFileUpload: setWorkspaceImage(url); the canvas and the
\* hidden img are mounted, the image is still loading
DropImage ==
    /\ Settled
    /\ ~workspace.workspaceImage
    /\ workspace' = [workspaceImage |-> TRUE, complete |-> FALSE, canvas |-> NoCanvas]
    /\ lastEvent' = "other"
    /\ drawn' = NoValue
    /\ UNCHANGED <<page, panel, rendered, ui, gallery>>
    /\ UNCHANGED <<convVars, callVars, formatVars, probe>>

\* clearWorkspace: setWorkspaceImage(null); the canvas is unmounted
ClearWorkspace ==
    /\ Settled
    /\ workspace.workspaceImage
    /\ workspace' = [workspaceImage |-> FALSE, complete |-> FALSE, canvas |-> NoCanvas]
    /\ lastEvent' = "other"
    /\ drawn' = NoValue
    /\ UNCHANGED <<page, panel, rendered, ui, gallery>>
    /\ UNCHANGED <<convVars, callVars, formatVars, probe>>

\* the workspace img's onLoad: drawImageOnCanvas(imgElement, canvas) of the
\* last render
WorkspaceImageLoad ==
    /\ workspace.workspaceImage
    /\ ~workspace.complete
    /\ workspace' = [workspace EXCEPT
                        !.complete = TRUE,
                        !.canvas = drawImageOnCanvas(WorkspaceSize(Image), Image, rendered).canvas]
    /\ drawn' = drawImageOnCanvas(WorkspaceSize(Image), Image, rendered).run
    /\ UNCHANGED <<page, panel, rendered, ui, gallery, lastEvent>>
    /\ UNCHANGED <<convVars, callVars, formatVars, probe>>

\* a gallery img's onLoad: imageRefs.current[id] = img; drawImageOnCanvas(img, canvas)
GalleryImageLoad ==
    /\ ~gallery.complete
    /\ gallery' = [complete |-> TRUE,
                   canvas |-> drawImageOnCanvas(GallerySize(Image), Image, rendered).canvas]
    /\ drawn' = drawImageOnCanvas(GallerySize(Image), Image, rendered).run
    /\ UNCHANGED <<page, panel, rendered, ui, workspace, lastEvent>>
    /\ UNCHANGED <<convVars, callVars, formatVars, probe>>

\* a render of Index and its children with the state as it is; the panel's
\* effect is due when its dependency selectedModel differs from the last commit
Render ==
    /\ ui.phase = "render"
    /\ rendered' = page
    /\ ui' = [phase |-> "effects", resetDue |-> page.selectedModel # rendered.selectedModel]
    /\ drawn' = NoValue
    /\ UNCHANGED <<page, panel, workspace, gallery, lastEvent>>
    /\ UNCHANGED <<convVars, callVars, formatVars, probe>>

\* the state the panel's effect leaves: handleReset() when it is due
AfterPanelEffect == IF ui.resetDue THEN handleReset(page) ELSE [panel |-> panel, page |-> page]

\* the effects of the last commit: the panel's, then the workspace's redraw
\* (if canvas && image && image.complete && workspaceImage), then the
\* gallery's (if canvas && image && image.complete); then the page renders
\* again if an effect changed its state
Effects ==
    /\ ui.phase = "effects"
    /\ panel' = AfterPanelEffect.panel
    /\ page' = AfterPanelEffect.page
    /\ workspace' =
          IF workspace.workspaceImage /\ workspace.complete
          THEN [workspace EXCEPT
                   !.canvas = drawImageOnCanvas(WorkspaceSize(Image), Image, rendered).canvas]
          ELSE workspace
    /\ gallery' =
          IF gallery.complete
          THEN [gallery EXCEPT
                   !.canvas = drawImageOnCanvas(GallerySize(Image), Image, rendered).canvas]
          ELSE gallery
    /\ drawn' =
          IF gallery.complete THEN drawImageOnCanvas(GallerySize(Image), Image, rendered).run
          ELSE IF workspace.workspaceImage /\ workspace.complete
          THEN drawImageOnCanvas(WorkspaceSize(Image), Image, rendered).run
          ELSE NoValue
    /\ ui' = [phase |-> IF AfterPanelEffect.page # rendered THEN "render" ELSE "settled",
              resetDue |-> FALSE]
    /\ UNCHANGED <<rendered, lastEvent>>
    /\ UNCHANGED <<convVars, callVars, formatVars, probe>>

NextUi ==
    \/ SelectModel
    \/ Toggle
    \/ MoveSlider
    \/ PressReset
    \/ DropImage
    \/ ClearWorkspace
    \/ WorkspaceImageLoad
    \/ GalleryImageLoad
    \/ Render
    \/ Effects

SpecUi == InitUi /\ [][NextUi]_vars

\* the page leaves the phase in which effects are due; Effects is the one step
\* of NextUi that does so
FlushEffects ==
    /\ ui.phase = "effects"
    /\ \E next \in {"render", "settled"} : ui' = [phase |-> next, resetDue |-> FALSE]

\* React renders after a state update and runs the effects of every commit
SpecUiLive == SpecUi /\ WF_vars(Render) /\ WF_ui(FlushEffects)

----------------------------------------------------------------------------
(* The pixel probe: handleInteraction of ImageWorkspace and handleMouseMove  *)
(* of ImageGallery, on a canvas that drawImageOnCanvas has drawn.  The       *)
(* element's rectangle is taken at the client origin and of the canvas's    *)
(* size, so the pointer's position is the coordinate (x, y) of the query.   *)

\* ctx.getImageData(x, y, 1, 1).data: the pixel at (x, y); a pixel outside
\* the canvas is read as transparent black, and nothing is thrown
InBounds(canvas, x, y) == x \in 0..(canvas.width - 1) /\ y \in 0..(canvas.height - 1)

getImageData(canvas, x, y) == IF InBounds(canvas, x, y) THEN canvas.fill ELSE <<0, 0, 0, 0>>

\* the positions a pointer or a finger that went down on the canvas reports:
\* the corners of the canvas and the positions next to them outside it
Positions(canvas) ==
    {-1, 0, canvas.width - 1, canvas.width} \X {-1, 0, canvas.height - 1, canvas.height}

\* a drawn canvas of either component and the selectedModel of the render
InitProbe ==
    /\ \E model \in Models, show \in BOOLEAN,
          size \in {WorkspaceSize(Image), GallerySize(Image)} :
          probe = [canvas |-> drawImageOnCanvas(size, Image,
                                 [selectedModel |-> model, showOriginal |-> show,
                                  adjustments |-> defaultAdjustments]).canvas,
                   selectedModel |-> model,
                   colorInfo |-> "",
                   query |-> NoValue]
    /\ ConvIdle
    /\ CallIdle
    /\ FormatIdle
    /\ UiIdle

\* onMouseMove, onTouchMove: the try block reads the pixel, formats it and
\* calls setColorInfo
Probe ==
    /\ \E at \in Positions(probe.canvas) :
          probe' = [probe EXCEPT
                       !.query = at,
                       !.colorInfo =
                           getColorInModel(PixelAt(getImageData(probe.canvas, at[1], at[2]), 0),
                                           probe.selectedModel)]
    /\ UNCHANGED <<convVars, callVars, formatVars, uiVars>>

\* onMouseLeave, onTouchEnd: setColorInfo('')
MouseLeave ==
    /\ probe.query # NoValue
    /\ probe' = [probe EXCEPT !.query = NoValue, !.colorInfo = ""]
    /\ UNCHANGED <<convVars, callVars, formatVars, uiVars>>

NextProbe == Probe \/ MouseLeave

SpecProbe == InitProbe /\ [][NextProbe]_vars

----------------------------------------------------------------------------
(* Claims about the page, checked under SpecUi and SpecUiLive *)

\* every delta of every model is present and 0
AllDeltasZero(adj) ==
    /\ Truthy(adj)
    /\ \A model \in Models :
          /\ EntryKey(model) \in DOMAIN adj
          /\ \A ch \in Channels(model) :
                ch \in DOMAIN adj[EntryKey(model)] /\ adj[EntryKey(model)][ch] = 0

\* some delta of some model is stored and is not 0
SomeDeltaNonZero(adj) ==
    \E model \in Models :
        /\ EntryKey(model) \in DOMAIN adj
        /\ \E ch \in DOMAIN adj[EntryKey(model)] : adj[EntryKey(model)][ch] # 0

\* the last user event changed the selected model or pressed Reset
ResetRequested == lastEvent \in {"SelectModel", "Reset"}

\* C22: after the selected model changes, and after Reset is pressed, the page
\* settles, and once it has settled every delta of every model is 0 in the
\* panel's state and in the page's.
ModelSwitchResets ==
    /\ [](ResetRequested => <>Settled)
    /\ []((ResetRequested /\ Settled) =>
             (AllDeltasZero(panel) /\ AllDeltasZero(page.adjustments)))

\* C22 witness: the effects of the commit of a model change have run, the
\* panel's effect replacing non-zero deltas of that commit by zeros
ModelSwitchResetsWitness ==
    /\ lastEvent = "SelectModel"
    /\ ui.phase = "render"
    /\ rendered.selectedModel = page.selectedModel
    /\ SomeDeltaNonZero(rendered.adjustments)
    /\ AllDeltasZero(panel)
    /\ AllDeltasZero(page.adjustments)

\* C27 (as claimed): in every call of transformImageData from the page, every
\* delta stored for a model other than the selected one is 0.
OnlySelectedModelHasDeltas ==
    (drawn # NoValue /\ drawn.transformed) =>
        \A model \in Models \ {drawn.selectedModel} :
            EntryKey(model) \in DOMAIN drawn.adjustments =>
                \A ch \in DOMAIN drawn.adjustments[EntryKey(model)] :
                    drawn.adjustments[EntryKey(model)][ch] = 0

\* C28: drawImageOnCanvas calls transformImageData exactly when showOriginal is
\* false or some stored delta is not 0; when the page has settled with
\* showOriginal true and no non-zero delta, every drawn canvas holds the image.
DrawTransformsIff ==
    /\ drawn # NoValue =>
          (drawn.transformed <=> (~drawn.showOriginal \/ SomeDeltaNonZero(drawn.adjustments)))
    /\ (Settled /\ page.showOriginal /\ ~SomeDeltaNonZero(page.adjustments)) =>
          /\ workspace.complete => workspace.canvas.fill = Image.fill
          /\ gallery.complete => gallery.canvas.fill = Image.fill

\* C28 witness: with showOriginal true, a non-zero delta made the gallery's
\* canvas differ from the image
DrawTransformsWitness ==
    /\ Settled
    /\ page.showOriginal
    /\ SomeDeltaNonZero(page.adjustments)
    /\ drawn # NoValue
    /\ drawn.transformed
    /\ gallery.complete
    /\ gallery.canvas.fill # Image.fill

----------------------------------------------------------------------------
(* Claims about the pixel probe, checked under SpecProbe *)

\* C23 (as claimed): a query whose coordinate lies outside the canvas leaves
\* the readout as it was: colorInfo is not set for that query.
ProbeOutsideGivesNoReading ==
    [][(/\ probe'.query # NoValue
        /\ probe'.query # probe.query
        /\ ~InBounds(probe'.canvas, probe'.query[1], probe'.query[2]))
          => probe'.colorInfo = probe.colorInfo]_vars

====
